---- MODULE Spec2Model ----
(***************************************************************************)
(* AlarmMitra reminder bot (reminder_bot1.py): the sqlite reminder table,  *)
(* the text extraction chain of parse_reminder, the request handler and    *)
(* the repeating check_reminders job, with process crashes and restarts.   *)
(*                                                                         *)
(* Time is counted in clock ticks, TicksPerSec ticks to the second, so     *)
(* that strftime("%Y-%m-%d %H:%M:%S"), which drops the sub-second part,    *)
(* is a real conversion.  Texts are sequences of one-character strings so  *)
(* that re.search, str.split and str.strip are computed on characters.     *)
(***************************************************************************)
EXTENDS Integers, Sequences, FiniteSets, TLC

\* ---------------------------------------------------------------- bounds
MaxReminders == 2      \* inserts explored (highest AUTOINCREMENT id)
MaxTime      == 2      \* last clock tick explored
TicksPerSec  == 2      \* clock ticks per second

\* ------------------------------------------------------ python's None
None    == <<>>
Some(x) == <<x>>
Val(o)  == o[1]

\* ------------------------------------------------------ str operations
Upper == <<"A","B","C","D","E","F","G","H","I","J","K","L","M",
           "N","O","P","Q","R","S","T","U","V","W","X","Y","Z">>
Lower == <<"a","b","c","d","e","f","g","h","i","j","k","l","m",
           "n","o","p","q","r","s","t","u","v","w","x","y","z">>

\* str.lower() on one character
lowerChar(c) ==
    LET K == {k \in DOMAIN Upper : Upper[k] = c}
    IN  IF K = {} THEN c ELSE Lower[CHOOSE k \in K : TRUE]

\* str.lower()
lower(s) == [k \in DOMAIN s |-> lowerChar(s[k])]

\* s[i:].startswith(w)
StartsAt(s, i, w) ==
    /\ i >= 1
    /\ i + Len(w) - 1 <= Len(s)
    /\ \A k \in 1..Len(w) : s[i + k - 1] = w[k]

\* s[i:].lower().startswith(w), for w in lower case
StartsAtIgnoreCase(s, i, w) ==
    /\ i >= 1
    /\ i + Len(w) - 1 <= Len(s)
    /\ \A k \in 1..Len(w) : lowerChar(s[i + k - 1]) = w[k]

\* the first position from i on where w occurs in s, 0 when there is none
RECURSIVE findFrom(_, _, _)
findFrom(s, w, i) ==
    IF i > Len(s) THEN 0
    ELSE IF StartsAt(s, i, w) THEN i
    ELSE findFrom(s, w, i + 1)

\* s.find(w) + 1
find(s, w) == findFrom(s, w, 1)

\* w in s
contains(s, w) == find(s, w) # 0

\* str.lstrip() and str.rstrip() (the texts hold no whitespace but the blank)
RECURSIVE lstrip(_)
lstrip(s) == IF s # <<>> /\ Head(s) = " " THEN lstrip(Tail(s)) ELSE s

RECURSIVE rstrip(_)
rstrip(s) ==
    IF s # <<>> /\ s[Len(s)] = " " THEN rstrip(SubSeq(s, 1, Len(s) - 1)) ELSE s

\* str.strip()
strip(s) == rstrip(lstrip(s))

\* s.split(w, 1)[-1]: what follows the first occurrence of w (s itself
\* when w does not occur)
splitLast(s, w) ==
    LET at == find(s, w)
    IN  IF at # 0 THEN SubSeq(s, at + Len(w), Len(s)) ELSE s

Digits == <<"0","1","2","3","4","5","6","7","8","9">>
IsDigit(c) == \E k \in DOMAIN Digits : Digits[k] = c
DigitVal(c) == (CHOOSE k \in DOMAIN Digits : Digits[k] = c) - 1

\* int(str) on a string of decimal digits
RECURSIVE int(_)
int(d) ==
    IF d = <<>> THEN 0
    ELSE 10 * int(SubSeq(d, 1, Len(d) - 1)) + DigitVal(d[Len(d)])

\* ------------------------------------------------- re.search, line 86
\* r'in (\d+) (second|seconds|minute|minutes|hour|hours)', re.IGNORECASE
UnitWords == << <<"s","e","c","o","n","d">>,
                <<"s","e","c","o","n","d","s">>,
                <<"m","i","n","u","t","e">>,
                <<"m","i","n","u","t","e","s">>,
                <<"h","o","u","r">>,
                <<"h","o","u","r","s">> >>

\* the end of the maximal run of digits starting at position i (i - 1
\* when there is none): \d+ is greedy and a blank must follow it
RECURSIVE DigitsEnd(_, _)
DigitsEnd(s, i) ==
    IF i <= Len(s) /\ IsDigit(s[i]) THEN DigitsEnd(s, i + 1) ELSE i - 1

\* the alternatives of group 2 that match at position i, in pattern order
UnitsAt(s, i) == {u \in DOMAIN UnitWords : StartsAtIgnoreCase(s, i, UnitWords[u])}

\* the pattern matches with its first character at position i
MatchesAt(s, i) ==
    LET j == DigitsEnd(s, i + 3)
    IN  /\ StartsAtIgnoreCase(s, i, <<"i","n"," ">>)
        /\ j >= i + 3
        /\ j + 1 <= Len(s)
        /\ s[j + 1] = " "
        /\ UnitsAt(s, j + 2) # {}

\* the leftmost position from i on where the pattern matches, 0 for none
RECURSIVE MatchFrom(_, _)
MatchFrom(s, i) ==
    IF i > Len(s) THEN 0
    ELSE IF MatchesAt(s, i) THEN i
    ELSE MatchFrom(s, i + 1)

\* the match object of the leftmost match: group(1), and group(2) as the
\* first alternative that matches; None when the pattern matches nowhere
re_search(s) ==
    LET i == MatchFrom(s, 1) IN
    IF i = 0 THEN None
    ELSE LET j == DigitsEnd(s, i + 3)
             U == UnitsAt(s, j + 2)
             u == CHOOSE u \in U : \A v \in U : u <= v
         IN  Some([group1 |-> SubSeq(s, i + 3, j),
                   group2 |-> SubSeq(s, j + 2, j + 1 + Len(UnitWords[u]))])

\* --------------------------------------------- datetime and timedelta
\* whole hours from the present to datetime.max (year 9999): a sum beyond
\* it makes "dt += timedelta(...)" raise OverflowError
HoursToDatetimeMax == 69000000

SecondsPerMinute == 60
SecondsPerHour   == 3600

\* lines 91-96: the branch taken for group(2).lower(), in seconds
UnitSeconds(unit) ==
    IF contains(unit, <<"s","e","c","o","n","d">>) THEN 1
    ELSE IF contains(unit, <<"m","i","n","u","t","e">>) THEN SecondsPerMinute
    ELSE IF contains(unit, <<"h","o","u","r">>) THEN SecondsPerHour
    ELSE 0

\* datetime.now() + timedelta(<unit>=value) is past datetime.max
Overflows(value, unit) ==
    /\ UnitSeconds(unit) > 0
    /\ value \div (SecondsPerHour \div UnitSeconds(unit)) >= HoursToDatetimeMax

\* dt.strftime("%Y-%m-%d %H:%M:%S"): the instant cut to whole seconds
\* (the TEXT column compares as the instant does: fixed-width fields)
strftime(t) == t \div TicksPerSec

\* ------------------------------------------------------------- inputs
Texts ==
    { <<"s","t","o","p"," ","i","n"," ","1"," ","s","e","c","o","n","d"," ","t","o"," ","g","o">>,
      <<"I","N"," ","0"," ","M","i","n","u","t","e","s">>,
      <<"a","t"," ","5">>,
      <<"i","n"," ","9","9","9","9","9","9","9","9"," ","h","o","u","r","s"," ","t","o"," ","x">> }

Chats == {"a", "b"}

\* the instants the general date parser may return: one, in the first
\* second (in the future for a call at tick 0, not for a later one)
DateInstants == {1}

\* what dateparser.parse gives for a string: None or an instant
DateParses == {None} \cup {Some(t) : t \in DateInstants}

\* what the chat-completion call and json.loads leave in "result":
\*   kind "error"  the call or json.loads raised
\*   kind "json"   a JSON object; hasTime/hasMessage: the key is present;
\*                 parsed: dateparser.parse(result["time"]);
\*                 message: result["message"], None for JSON null
SemanticResponses ==
    { [kind |-> "error", hasTime |-> FALSE, parsed |-> None,
       hasMessage |-> FALSE, message |-> None] }
    \cup
    { r \in [kind : {"json"}, hasTime : BOOLEAN, parsed : DateParses,
             hasMessage : BOOLEAN,
             message : {None, Some(<<>>), Some(<<"g","o">>)}] :
        /\ (~r.hasTime => r.parsed = None)
        /\ (~r.hasMessage => r.message = None) }

\* ------------------------------------------- parse_reminder, lines 69-105
\* lines 73-83 reach "return dt, result['message']" without raising
SemanticSucceeds(resp) ==
    /\ resp.kind = "json"
    /\ resp.hasTime
    /\ resp.parsed # None
    /\ resp.hasMessage

\* line 97
RegexMessage(text) ==
    IF contains(text, <<"t","o">>) THEN strip(splitLast(text, <<"t","o">>)) ELSE text

\* lines 86-98 up to the reading of the clock: None when the pattern does
\* not match; else whether the timedelta overflows, the offset in ticks and
\* the message
RegexFallback(text) ==
    LET match == re_search(text) IN
    IF match = None THEN None
    ELSE LET value == int(Val(match).group1)
             unit  == lower(Val(match).group2)
         IN  IF Overflows(value, unit)
             THEN Some([overflow |-> TRUE, offset |-> 0, message |-> <<>>])
             ELSE Some([overflow |-> FALSE,
                        offset   |-> value * UnitSeconds(unit) * TicksPerSec,
                        message  |-> RegexMessage(text)])

\* RegexFallback depends on the text alone: computed once for each text
Fallback == [t \in Texts |-> RegexFallback(t)]

\* mutant: the general date parser is tried before the regex
parse_reminder_DateFirst(text, resp, dp, clk) ==
    IF SemanticSucceeds(resp)
    THEN [raised |-> FALSE, dt |-> resp.parsed, message |-> resp.message]
    ELSE IF dp # None
         THEN [raised |-> FALSE, dt |-> dp, message |-> Some(text)]
         ELSE IF Fallback[text] # None
              THEN IF Val(Fallback[text]).overflow
                   THEN [raised |-> TRUE, dt |-> None, message |-> None]
                   ELSE [raised |-> FALSE,
                         dt |-> Some(clk + Val(Fallback[text]).offset),
                         message |-> Some(Val(Fallback[text]).message)]
              ELSE [raised |-> FALSE, dt |-> None, message |-> None]

\* parse_reminder(text) with the service's answer resp, dateparser's answer
\* dp for the whole text, and clk the reading of datetime.now() at line 90.
\* raised: the call ends in an exception instead of returning.
parse_reminder(text, resp, dp, clk) ==
    IF SemanticSucceeds(resp)
    THEN [raised |-> FALSE, dt |-> resp.parsed, message |-> resp.message]
    ELSE IF Fallback[text] # None
         THEN IF Val(Fallback[text]).overflow
              THEN [raised |-> TRUE, dt |-> None, message |-> None]
              ELSE [raised |-> FALSE,
                    dt |-> Some(clk + Val(Fallback[text]).offset),
                    message |-> Some(Val(Fallback[text]).message)]
         ELSE IF dp # None
              THEN [raised |-> FALSE, dt |-> dp, message |-> Some(text)]
              ELSE [raised |-> FALSE, dt |-> None, message |-> None]

\* ---------------------------------------------------------------- state
VARIABLES
    now,      \* the wall clock, in ticks
    up,       \* the process is running
    rows,     \* table "reminders" of ai_reminders.db (on disk)
    seq,      \* sqlite_sequence of the table: the highest id ever assigned
    reply,    \* the reply the request handler in flight is awaiting
    scans,    \* the running instances of the check_reminders job
    accepts,  \* history: times the transport accepted each reminder (2: more)
    acked,    \* history: ids whose send_message returned to check_reminders
    lost,     \* history: ids accepted whose acknowledgment never reached the loop
    failed,   \* history: ids whose send_message raised
    last      \* the request of ParseSpec: its inputs, then its extraction

vars == <<now, up, rows, seq, reply, scans, accepts, acked, lost, failed, last>>

Ids == 1..MaxReminders

\* the job queue's limit of concurrently running instances of one job
\* (run_repeating passes no job_kwargs: the scheduler's default)
max_instances == 1

\* ------------------------------------------------ the store, lines 31-66
\* mutant: the table is created anew at every start
init_db_Recreate(table) == {}

\* CREATE TABLE IF NOT EXISTS: an existing table keeps its rows
init_db(table) == table

Max(S) == CHOOSE x \in S : \A y \in S : y <= x

\* mutant: INTEGER PRIMARY KEY without AUTOINCREMENT, one more than the
\* largest id now in the table
NextId_MaxRowid(table, sq) == Max({r.id : r \in table} \cup {0}) + 1

\* the id an INSERT assigns under AUTOINCREMENT (line 36): one more than
\* the largest id the table has ever held, which sqlite_sequence keeps
NextId(table, sq) == Max({r.id : r \in table} \cup {sq}) + 1

\* mutant: one reminder for each chat, a new one overwrites the stored one
add_reminder_Upsert(table, id, chat_id, message, remind_time) ==
    IF \E r \in table : r.chat_id = chat_id
    THEN {IF r.chat_id = chat_id
          THEN [r EXCEPT !.message = message, !.remind_time = remind_time]
          ELSE r : r \in table}
    ELSE table \cup {[id |-> id, chat_id |-> chat_id, message |-> message,
                      remind_time |-> remind_time]}

\* INSERT with id INTEGER PRIMARY KEY AUTOINCREMENT, then commit
add_reminder(table, id, chat_id, message, remind_time) ==
    table \cup {[id |-> id, chat_id |-> chat_id, message |-> message,
                 remind_time |-> remind_time]}

\* mutant: "=" for "<=", a reminder is due only in its own second
IsDue_SameSecond(r, t) == r.remind_time = strftime(t)

\* mutant: the clock reading is rounded up to the next second
IsDue_Early(r, t) == r.remind_time <= strftime(t) + 1

\* the WHERE clause of line 56
IsDue(r, t) == r.remind_time <= strftime(t)

\* the ids of a set of rows in rowid order
RECURSIVE ByRowid(_)
ByRowid(S) ==
    IF S = {} THEN <<>>
    ELSE LET r == CHOOSE x \in S : \A y \in S : x.id <= y.id
         IN  <<r>> \o ByRowid(S \ {r})

\* mutant: fetchone() for fetchall(), the first due row only
get_due_reminders_First(table, t) ==
    LET due == ByRowid({r \in table : IsDue(r, t)})
    IN  [k \in DOMAIN due \cap {1} |-> <<due[k].id, due[k].chat_id, due[k].message>>]

\* SELECT id, chat_id, message ... WHERE remind_time <= now, a table scan
get_due_reminders(table, t) ==
    LET due == ByRowid({r \in table : IsDue(r, t)})
    IN  [k \in DOMAIN due |-> <<due[k].id, due[k].chat_id, due[k].message>>]

\* mutant: DELETE without its WHERE clause
delete_reminder_Truncate(table, reminder_id) == {}

\* mutant: the DELETE is never committed
delete_reminder_Noop(table, reminder_id) == table

\* DELETE FROM reminders WHERE id = ?, then commit
delete_reminder(table, reminder_id) == {r \in table : r.id # reminder_id}

StoredIds == {r.id : r \in rows}

Bump(n) == IF n < 2 THEN n + 1 ELSE 2

NoLast == [text |-> <<>>, chat |-> "", resp |-> None, dp |-> None, delay |-> 0,
           clk |-> 0, out |-> None]

Init ==
    /\ now = 0
    /\ up = TRUE
    /\ rows = {}
    /\ seq = 0
    /\ reply = "none"
    /\ scans = <<>>
    /\ accepts = [i \in Ids |-> 0]
    /\ acked = {}
    /\ lost = {}
    /\ failed = {}
    /\ last = NoLast

\* ------------------------------- handle_reminder_request, lines 128-143
\* One update is handled at a time.  parse_reminder is a blocking call:
\* the event loop runs nothing else while the service is awaited, and the
\* clock moves on by "delay" ticks before line 90 reads it.  From the call
\* to the first await (reply_text) the handler is one step.

\* mutant: the reminder is stored before the result is looked at
Handle_InsertFirst(chat, out, clk) ==
    /\ up
    /\ reply = "none"
    /\ clk <= MaxTime
    /\ now' = clk
    /\ seq < MaxReminders
    /\ rows' = add_reminder(rows, NextId(rows, seq), chat,
                            IF out.message = None THEN <<>> ELSE Val(out.message),
                            IF out.dt = None THEN strftime(clk) ELSE strftime(Val(out.dt)))
    /\ seq' = NextId(rows, seq)
    /\ reply' = IF out.dt = None \/ out.message = None THEN "guidance" ELSE "confirm"
    /\ UNCHANGED <<up, scans, accepts, acked, lost, failed>>

\* mutant: an error of add_reminder is swallowed and the confirmation sent
Handle_ConfirmAnyway(chat, out, clk) ==
    /\ up
    /\ reply = "none"
    /\ clk <= MaxTime
    /\ now' = clk
    /\ IF out.raised
       THEN UNCHANGED <<rows, seq, reply>>
       ELSE IF out.dt = None \/ out.message = None
       THEN /\ reply' = "guidance"
            /\ UNCHANGED <<rows, seq>>
       ELSE \/ /\ seq < MaxReminders
               /\ rows' = add_reminder(rows, NextId(rows, seq), chat,
                                       Val(out.message), strftime(Val(out.dt)))
               /\ seq' = NextId(rows, seq)
               /\ reply' = "confirm"
            \/ /\ reply' = "confirm"
               /\ UNCHANGED <<rows, seq>>
    /\ UNCHANGED <<up, scans, accepts, acked, lost, failed>>

\* lines 130-143 up to the await, for the result "out" of parse_reminder
\* returned at clock reading clk
Handle(chat, out, clk) ==
    /\ up
    /\ reply = "none"
    /\ clk <= MaxTime
    /\ now' = clk
    /\ IF out.raised
       THEN \* the exception leaves the handler: nothing stored, no reply
            UNCHANGED <<rows, seq, reply>>
       ELSE IF out.dt = None \/ out.message = None
       THEN /\ reply' = "guidance"
            /\ UNCHANGED <<rows, seq>>
       ELSE \/ /\ seq < MaxReminders
               /\ rows' = add_reminder(rows, NextId(rows, seq), chat,
                                       Val(out.message), strftime(Val(out.dt)))
               /\ seq' = NextId(rows, seq)
               /\ reply' = "confirm"
            \/ \* add_reminder raises (sqlite3.Error): the exception leaves
               \* the handler before line 140
               UNCHANGED <<rows, seq, reply>>
    /\ UNCHANGED <<up, scans, accepts, acked, lost, failed>>

\* every result parse_reminder can return at clock reading clk, computed
\* once for each reading
ParseResultsAt ==
    [clk \in 0..MaxTime |->
        {parse_reminder(text, resp, dp, clk) :
            text \in Texts, resp \in SemanticResponses, dp \in DateParses}]

ParseResults(clk) == IF clk \in DOMAIN ParseResultsAt THEN ParseResultsAt[clk] ELSE {}

Delays == {0, 1}

\* a request arrives and is handled
Request ==
    /\ up
    /\ reply = "none"
    /\ \E chat \in Chats, delay \in Delays :
         \E out \in ParseResults(now + delay) : Handle(chat, out, now + delay)
    /\ UNCHANGED last

\* the request held in "last" is handled, and its extraction kept
Extract ==
    /\ last.text # <<>>
    /\ last.out = None
    /\ \E clk \in {now + last.delay} :
         \E out \in {parse_reminder(last.text, Val(last.resp), last.dp, clk)} :
            /\ Handle(last.chat, out, clk)
            /\ last' = [last EXCEPT !.clk = clk, !.out = Some(out)]

\* reply_text returns or raises: either way the handler is over
Replied ==
    /\ up
    /\ reply # "none"
    /\ reply' = "none"
    /\ UNCHANGED <<now, up, rows, seq, scans, accepts, acked, lost, failed>>

ReplyDone == Replied /\ UNCHANGED last

\* ------------------------------------- check_reminders, lines 145-153
\* An instance of the job: the batch read at line 146, the index i of the
\* reminder whose send_message is awaited, and whether the transport has
\* taken that message ("accepted") or not yet ("sending").
Remove(q, k) == [j \in 1..(Len(q) - 1) |-> IF j < k THEN q[j] ELSE q[j + 1]]

Current(k) == scans[k].batch[scans[k].i]

\* mutant: instances of the job may overlap
MayStart_Always == TRUE

\* the timer may start another instance of the job
MayStart == Len(scans) < max_instances

\* the timer fires (line 166): a run is skipped while an instance is
\* running; else lines 146-148, up to the first await
Tick ==
    /\ up
    /\ LET reminders == get_due_reminders(rows, now)
       IN  scans' = IF ~MayStart \/ reminders = <<>> THEN scans
                    ELSE Append(scans, [pc |-> "sending", batch |-> reminders, i |-> 1])
    /\ UNCHANGED <<now, up, rows, seq, reply, accepts, acked, lost, failed, last>>

\* the transport takes the message
Accept(k) ==
    /\ up
    /\ scans[k].pc = "sending"
    /\ scans' = [scans EXCEPT ![k].pc = "accepted"]
    /\ accepts' = [accepts EXCEPT ![Current(k)[1]] = Bump(@)]
    /\ UNCHANGED <<now, up, rows, seq, reply, acked, lost, failed, last>>

\* what line 153 and the loop do once send_message has returned
AfterSend(k) ==
    /\ rows' = delete_reminder(rows, Current(k)[1])
    /\ scans' = IF scans[k].i < Len(scans[k].batch)
                THEN [scans EXCEPT ![k].i = @ + 1, ![k].pc = "sending"]
                ELSE Remove(scans, k)

\* mutant: the reminder is deleted whether or not send_message returned
AfterRaise_Deletes(k) ==
    /\ rows' = delete_reminder(rows, Current(k)[1])
    /\ scans' = Remove(scans, k)

\* mutant: a failed reminder is put off by a second
AfterRaise_Postpones(k) ==
    /\ rows' = {IF r.id = Current(k)[1]
                THEN [r EXCEPT !.remind_time = strftime(now) + 1] ELSE r : r \in rows}
    /\ scans' = Remove(scans, k)

\* what happens when send_message raises: nothing catches it in
\* check_reminders, the instance ends
AfterRaise(k) ==
    /\ rows' = rows
    /\ scans' = Remove(scans, k)

\* send_message returns: the transport's acknowledgment
Ack(k) ==
    /\ up
    /\ scans[k].pc = "accepted"
    /\ acked' = acked \cup {Current(k)[1]}
    /\ AfterSend(k)
    /\ UNCHANGED <<now, up, seq, reply, accepts, lost, failed, last>>

\* send_message raises, the transport having refused or never got the message
DeliveryFailed(k) ==
    /\ up
    /\ scans[k].pc = "sending"
    /\ failed' = failed \cup {Current(k)[1]}
    /\ AfterRaise(k)
    /\ UNCHANGED <<now, up, seq, reply, accepts, acked, lost, last>>

\* send_message raises (a timeout) although the transport took the message
AckLost(k) ==
    /\ up
    /\ scans[k].pc = "accepted"
    /\ lost' = lost \cup {Current(k)[1]}
    /\ failed' = failed \cup {Current(k)[1]}
    /\ AfterRaise(k)
    /\ UNCHANGED <<now, up, seq, reply, accepts, acked, last>>

Deliver == \E k \in DOMAIN scans : Accept(k) \/ Ack(k)
Fail    == \E k \in DOMAIN scans : DeliveryFailed(k) \/ AckLost(k)

\* ------------------------------------------------- process and clock
\* the process dies: handlers and job instances in flight are gone, the
\* database file stays
Crash ==
    /\ up
    /\ up' = FALSE
    /\ reply' = "none"
    /\ scans' = <<>>
    /\ lost' = lost \cup {Current(k)[1] : k \in {j \in DOMAIN scans : scans[j].pc = "accepted"}}
    /\ UNCHANGED <<now, rows, seq, accepts, acked, failed, last>>

\* main(), lines 156-169
Restart ==
    /\ ~up
    /\ up' = TRUE
    /\ rows' = init_db(rows)
    /\ UNCHANGED <<now, seq, reply, scans, accepts, acked, lost, failed, last>>

ClockTick ==
    /\ now < MaxTime
    /\ now' = now + 1
    /\ UNCHANGED <<up, rows, seq, reply, scans, accepts, acked, lost, failed, last>>

Next == Request \/ ReplyDone \/ Tick \/ Deliver \/ Fail \/ Crash \/ Restart \/ ClockTick

Spec == Init /\ [][Next]_vars

\* the running process, for the progress of deliveries: the timer keeps
\* firing, the clock keeps moving, every send_message ends (it is bounded
\* by a timeout), and a delivery to GoodChat that is tried again and again
\* is in the end accepted and acknowledged.  Deliveries to the other chat
\* may fail for ever.
GoodChat == "b"

AcceptGood == \E k \in DOMAIN scans : Accept(k) /\ Current(k)[2] = GoodChat
AckGood    == \E k \in DOMAIN scans : Ack(k) /\ Current(k)[2] = GoodChat

LiveNext == Request \/ ReplyDone \/ Tick \/ Deliver \/ Fail \/ ClockTick

LiveSpec ==
    /\ Init
    /\ [][LiveNext]_vars
    /\ WF_vars(ClockTick)
    /\ WF_vars(Tick)
    /\ WF_vars(Deliver \/ Fail)
    /\ SF_vars(AcceptGood)
    /\ SF_vars(AckGood)

\* the request handler alone, on one request drawn from the inputs and
\* arriving at any reading of the clock
ParseInit ==
    /\ now \in 0..MaxTime
    /\ up = TRUE
    /\ rows = {}
    /\ seq = 0
    /\ reply = "none"
    /\ scans = <<>>
    /\ accepts = [i \in Ids |-> 0]
    /\ acked = {}
    /\ lost = {}
    /\ failed = {}
    /\ last \in [text : Texts, chat : Chats, resp : {Some(r) : r \in SemanticResponses},
                  dp : DateParses, delay : Delays, clk : {0}, out : {None}]

ParseNext == Extract \/ ReplyDone

ParseSpec == ParseInit /\ [][ParseNext]_vars

\* --------------------------------------------------------------- claims
Range(f) == {f[k] : k \in DOMAIN f}

Brief(r) == <<r.id, r.chat_id, r.message>>

\* C1: a reminder that was inserted and is no longer in the table has had
\* a send_message return to check_reminders: only an acknowledged delivery
\* removes a reminder.
C1_RemovedOnlyAfterAck ==
    \A i \in 1..seq : i \notin StoredIds => i \in acked

C1_Witness ==
    \E i \in 1..seq : i \notin StoredIds /\ i \in acked /\ accepts[i] = 1

C3_DueIsEventuallyDelivered ==
    \A i \in Ids :
        (\E r \in rows : r.id = i /\ r.chat_id = GoodChat /\ IsDue(r, now))
            ~> (i \in acked /\ i \notin StoredIds)

\* C4: a step in which send_message raises leaves the reminder in the table
\* with the same chat, message and time, and the due query after it returns
\* the reminder again.
C4_FailedDeliveryKeepsReminder ==
    [][\A k \in DOMAIN scans :
          (Len(scans') < Len(scans) /\ (DeliveryFailed(k) \/ AckLost(k))) =>
             \E r \in rows :
                /\ Brief(r) = Current(k)
                /\ r \in rows'
                /\ Current(k) \in Range(get_due_reminders(rows', now'))]_vars

C4_Witness ==
    \E k \in DOMAIN scans :
        /\ Current(k)[1] \in failed
        /\ \E r \in rows : Brief(r) = Current(k)

\* C5: when an instance of check_reminders ends, the process still running,
\* every reminder of the batch it read has had its delivery attempted.
C5_EveryDueReminderAttempted ==
    [][\A k \in DOMAIN scans :
          (up' /\ scans' = Remove(scans, k)) => scans[k].i = Len(scans[k].batch)]_vars

\* C6: the death of the process and its restart leave every stored reminder
\* in the table as it was, and the due query of the restarted process
\* returns each one whose time has come.
C6_CrashKeepsReminders ==
    [][up' # up =>
          \A r \in rows :
             /\ r \in rows'
             /\ (r.remind_time <= strftime(now') =>
                    Brief(r) \in Range(get_due_reminders(rows', now')))]_vars

C6_Witness ==
    /\ up
    /\ \E k \in DOMAIN scans :
          /\ Current(k)[1] \in lost \ failed
          /\ \E r \in rows : Brief(r) = Current(k)

\* C7: at most one instance of check_reminders runs at any time.
C7_OneScanAtATime ==
    Len(scans) <= 1

\* a reminder has come due while an instance is still awaiting a delivery:
\* the timer firing now starts no second instance
C7_Witness ==
    /\ up
    /\ Len(scans) = 1
    /\ \E r \in rows : IsDue(r, now) /\ Brief(r) \notin Range(scans[1].batch)

\* parse_reminder returned (None, None)
NotParseable(out) == ~out.raised /\ out.dt = None /\ out.message = None

\* C8: the step that handles a request whose extraction is NotParseable
\* leaves the table and its id sequence as they were and sends the guidance.
C8_NotParseableStoresNothing ==
    [][(last.out = None /\ last'.out # None /\ NotParseable(Val(last'.out)))
          => (rows' = rows /\ seq' = seq /\ reply' = "guidance")]_vars

C8_Witness ==
    /\ last.out # None
    /\ NotParseable(Val(last.out))
    /\ reply = "guidance"
    /\ rows = {}

\* the service gave a time that parses and a message
SemanticUsable(resp) ==
    /\ resp.kind = "json"
    /\ resp.hasTime /\ resp.parsed # None
    /\ resp.hasMessage /\ resp.message # None

\* C9: the guidance is sent only for a request on which all three
\* strategies fail: no usable semantic result, no match of the pattern, no
\* instant from the general date parser.
C9_GuidanceOnlyWhenAllFail ==
    reply = "guidance" =>
        /\ ~SemanticUsable(Val(last.resp))
        /\ re_search(last.text) = None
        /\ last.dp = None

\* the text matches "in <N> <unit>" and holds "to"
InToText(text) == re_search(text) # None /\ contains(text, <<"t","o">>)

\* now + N units is past datetime.max
InToOverflows(text) ==
    Overflows(int(Val(re_search(text)).group1), lower(Val(re_search(text)).group2))

\* N times the unit, in ticks
InToOffset(text) ==
    int(Val(re_search(text)).group1)
        * UnitSeconds(lower(Val(re_search(text)).group2)) * TicksPerSec

\* what the claim expects of the extraction, clk being the reading of the
\* clock in the call
InToResult(text, clk) ==
    [raised  |-> FALSE,
     dt      |-> Some(clk + InToOffset(text)),
     message |-> Some(strip(splitLast(text, <<"t","o">>)))]

\* C10 as claimed: for every text with "in <N> <unit>" and "to", the
\* extraction is the clock reading plus N units and the trimmed text after
\* the first "to", whatever the semantic step answered.
C10_RegexResultAlways ==
    (last.out # None /\ InToText(last.text)) =>
        /\ ~InToOverflows(last.text)
        /\ Val(last.out) = InToResult(last.text, last.clk)

\* C10 as amended: the same when the semantic step raised and the sum is
\* within datetime's range; when the semantic step returned, its result is
\* what the extraction returns.
C10_RegexResultWhenSemanticFails ==
    (last.out # None /\ InToText(last.text)) =>
        IF SemanticSucceeds(Val(last.resp))
        THEN Val(last.out) = [raised |-> FALSE, dt |-> Val(last.resp).parsed,
                              message |-> Val(last.resp).message]
        ELSE IF InToOverflows(last.text)
        THEN Val(last.out).raised
        ELSE Val(last.out) = InToResult(last.text, last.clk)

C10_Witness ==
    /\ last.out # None
    /\ last.text = <<"s","t","o","p"," ","i","n"," ","1"," ","s","e","c","o","n","d"," ","t","o"," ","g","o">>
    /\ ~SemanticSucceeds(Val(last.resp))
    /\ last.dp # None
    /\ last.delay = 1
    /\ Val(last.out).dt = Some(last.clk + TicksPerSec)
    /\ Val(last.out).message =
          Some(<<"p"," ","i","n"," ","1"," ","s","e","c","o","n","d"," ","t","o"," ","g","o">>)
    /\ \E r \in rows : r.message = Val(Val(last.out).message)

\* C11: delete_reminder is idempotent: for the table of every reachable
\* state and every id, deleting twice gives the table that deleting once
\* gives, every row with another id is kept as it is, and deleting an id
\* that is not stored gives the table back unchanged.
C11_DeleteIdempotent ==
    \A id \in Ids :
        /\ delete_reminder(delete_reminder(rows, id), id) = delete_reminder(rows, id)
        /\ \A r \in rows : r.id # id => r \in delete_reminder(rows, id)
        /\ (id \notin StoredIds => delete_reminder(rows, id) = rows)

\* a reminder has been deleted by check_reminders and another is stored:
\* a second delete of the first id would find no row
C11_Witness ==
    /\ rows # {}
    /\ \E id \in 1..seq : id \in acked /\ id \notin StoredIds

\* C12: in every step that moves the clock on or changes the table, the
\* stored reminders that get_due_reminders returns before the step and
\* that are still stored after it (their ids are in the table) are
\* returned by get_due_reminders after the step, whatever the step inserts
\* or deletes.
C12_DueStaysDue ==
    [][(now' >= now /\ (now' # now \/ rows' # rows)) =>
          \A kept \in {{r \in rows : IsDue(r, now) /\ r.id \in {q.id : q \in rows'}}} :
             kept # {} =>
                \A due \in {Range(get_due_reminders(rows', now'))} :
                   \A r \in kept : Brief(r) \in due]_vars

\* a reminder whose delivery failed in an earlier second is still stored
\* and due, another reminder having been delivered and deleted meanwhile
C12_Witness ==
    \E r \in rows :
        /\ r.remind_time < strftime(now)
        /\ r.id \in failed
        /\ Brief(r) \in Range(get_due_reminders(rows, now))
        /\ \E i \in acked : i # r.id

\* the ids known to have been assigned: those stored and those of the
\* reminders check_reminders has tried to deliver
Assigned == StoredIds \cup acked \cup failed \cup lost

\* C13: every row a step inserts has an id greater than every id assigned
\* before the step, deleted ones included, and no two stored rows share an
\* id.
C13_IdsNeverReused ==
    [][/\ \A r \in rows' \ rows : \A i \in Assigned : r.id > i
       /\ \A r1, r2 \in rows' : r1.id = r2.id => r1 = r2]_vars

\* a reminder has been delivered and deleted, and a reminder with a higher
\* id is the only one stored
C13_Witness ==
    /\ seq = 2
    /\ StoredIds = {2}
    /\ 1 \in acked

\* C14: two stored reminders with the same remind_time that has come are
\* both in the result of one get_due_reminders call; deleting the two in
\* either order leaves the table without both and otherwise as it was; and
\* every reminder whose send_message has returned is deleted, so that a
\* table holding just the two is empty after both deliveries.
C14_SameInstantBothHandled ==
    /\ \A r1, r2 \in rows :
          (r1 # r2 /\ r1.remind_time = r2.remind_time /\ IsDue(r1, now)) =>
             /\ {Brief(r1), Brief(r2)} \subseteq Range(get_due_reminders(rows, now))
             /\ delete_reminder(delete_reminder(rows, r1.id), r2.id) = rows \ {r1, r2}
             /\ delete_reminder(delete_reminder(rows, r2.id), r1.id) = rows \ {r1, r2}
    /\ \A i \in acked : i \notin StoredIds

\* one scan has read the two stored reminders, which have the same
\* remind_time, and the first of them has been accepted by the transport
C14_Witness ==
    /\ Len(scans) = 1
    /\ Len(scans[1].batch) = 2
    /\ scans[1].i = 1
    /\ scans[1].pc = "accepted"
    /\ \E r1, r2 \in rows :
          /\ r1.id < r2.id
          /\ r1.remind_time = r2.remind_time
          /\ rows = {r1, r2}
          /\ scans[1].batch = <<Brief(r1), Brief(r2)>>

\* C15: every stored reminder has a message that is not the empty string.
C15_MessageNonEmpty ==
    \A r \in rows : r.message # <<>>

\* C16: every row a step inserts has a remind_time strictly later than the
\* clock reading at the insert.
C16_InsertedInTheFuture ==
    [][\A r \in rows' \ rows : r.remind_time * TicksPerSec > now']_vars

\* C17: a row that is stored before a step and whose id is stored after it
\* is the same row after it: chat_id, message and remind_time of a stored
\* reminder never change.
C17_StoredReminderNeverMutated ==
    [][\A r \in rows : r.id \in {q.id : q \in rows'} => r \in rows']_vars

\* a stored reminder has lived through a failed delivery of its own, the
\* insert of a later reminder and the delivery and delete of that one
C17_Witness ==
    \E r \in rows :
        /\ r.id = 1
        /\ 1 \in failed
        /\ 2 \in acked
        /\ seq = 2

\* C18: get_due_reminders returns exactly the stored reminders whose
\* remind_time, a whole second, is not after the clock reading, and the
\* reminder whose send_message a scan is awaiting is stored with a
\* remind_time not after the clock reading.
C18_NotDeliveredBeforeDue ==
    /\ Range(get_due_reminders(rows, now)) =
          {Brief(r) : r \in {x \in rows : x.remind_time * TicksPerSec <= now}}
    /\ \A k \in DOMAIN scans :
          \E r \in rows :
             /\ Brief(r) = Current(k)
             /\ r.remind_time * TicksPerSec <= now

\* a reminder is being delivered in the very tick its second begins, while
\* a reminder of the next second is stored and was left out of the batch
C18_Witness ==
    /\ Len(scans) = 1
    /\ scans[1].pc = "accepted"
    /\ \E r1, r2 \in rows :
          /\ Brief(r1) = Current(1)
          /\ r1.remind_time * TicksPerSec = now
          /\ r2.remind_time * TicksPerSec > now
          /\ Brief(r2) \notin Range(scans[1].batch)

\* C19: the step that sends the confirmation has inserted the reminder of
\* that request (its chat, and the message and time its extraction gave);
\* the step that sends the guidance inserts nothing; and a request whose
\* reply has been sent, or whose handler has ended without one, gets no
\* other reply.
C19_ReplyConsistentWithStore ==
    [][/\ (reply = "none" /\ reply' = "confirm") =>
             /\ last'.out # None
             /\ \E r \in rows' \ rows :
                   /\ r.chat_id = last.chat
                   /\ Some(r.message) = Val(last'.out).message
                   /\ Val(last'.out).dt # None
                   /\ r.remind_time = strftime(Val(Val(last'.out).dt))
       /\ (reply = "none" /\ reply' = "guidance") => (rows' = rows /\ seq' = seq)
       /\ reply # "none" => reply' \in {reply, "none"}
       /\ last.out # None => reply' \in {reply, "none"}]_vars

\* the confirmation is being sent and the table holds the request's reminder
C19_Witness ==
    /\ reply = "confirm"
    /\ last.out # None
    /\ \E r \in rows : r.chat_id = last.chat /\ Some(r.message) = Val(last.out).message

====
